---- MODULE Spec2Model ----
(***************************************************************************)
(* A state-machine model of crossterm-winapi: the reference-counted        *)
(* Handle (src/handle.rs) and the wrappers built on it, ConsoleMode        *)
(* (src/console_mode.rs), ScreenBuffer (src/screen_buffer.rs) and          *)
(* Semaphore (src/semaphore.rs), together with the part of the Windows     *)
(* console they act on: the process handle table, the screen buffers, the  *)
(* active buffer, the mode registers and the semaphore counts.             *)
(***************************************************************************)
EXTENDS Integers, Sequences, FiniteSets, TLC

\* ------------------------------------------------------------------ bounds
\* Inner objects (Arc<Inner> allocations) made in one run.
MaxInner == 2
\* Cap on the strong count of one Arc<Inner>.
MaxStrong == 2

\* --------------------------------------------------------------- constants
\* winapi::um::handleapi::INVALID_HANDLE_VALUE, (HANDLE)-1.
INVALID_HANDLE_VALUE == -1
\* CreateSemaphoreW(.., 0, 1, ..): initial and maximum count; ReleaseSemaphore(.., 1, ..).
SemInitialCount == 0
SemMaximumCount == 1
SemReleaseCount == 1

\* Threads of the process that hold and drop handles; thread 1 is the main thread.
Threads == {1, 2}
Main == {1}
InnerIds == 1..MaxInner
\* Native handle values: 1 and 2 are the process's standard output and input,
\* the others are handed out by the handle table. 0 is the null handle.
Raws == 1..(MaxInner + 2)

\* The four values of enum HandleType.
HandleType == {"OutputHandle", "InputHandle", "CurrentOutputHandle", "CurrentInputHandle"}

\* Kernel objects a handle can refer to.
NoObj == <<"none", 0>>
InputBuffer == <<"in", 0>>
Buf(k) == <<"buf", k>>
Sem(k) == <<"sem", k>>
IsBuf(o) == o[1] = "buf"
IsSem(o) == o[1] = "sem"
IsConsoleObj(o) == o[1] \in {"buf", "in"}

\* Screen buffer sizes. The window is 80x25; a new buffer starts at that size.
WindowSize == <<80, 25>>
NoSize == <<>>
\* Arguments the callers pass to set_size(x, y).
SizeInputs == {<<120, 9000>>, <<10, 10>>}
\* Arguments the callers pass to set_mode, as u32 values, and the bits the
\* console may report in addition to the ones written.
ModeInputs == {4, 65540}
ModeExtra == {0, 128}

VARIABLES
    inners,      \* Seq of Inner(HANDLE, bool): [raw, exclusive]
    strong,      \* strong[i]: the strong count of the Arc holding inners[i]
    refs,        \* refs[t][i]: Handle values of inners[i] that thread t owns
    pc,          \* pc[t] = i > 0: t released the last reference of i and is in Inner::drop
    panicked,    \* panicked[t]: t is unwinding from a panic
    aborted,     \* the process aborted (a panic while unwinding)
    closes,      \* closes[i]: CloseHandle calls issued by Inner::drop of inners[i]
    dropper,     \* dropper[i]: the threads that ran Inner::drop of inners[i], in order
    handles,     \* the process handle table: raw value -> kernel object
    bufs,        \* bufs[k]: size of live screen buffer k, NoSize when k does not exist
    active,      \* the active screen buffer (-1: none)
    modeReg,     \* mode register of the console objects
    sems,        \* sems[k]: <<count, maximum>> of semaphore k, <<>> when k does not exist
    shown,       \* the buffer of the most recent successful show() (-1: none yet)
    sizeSet,     \* sizeSet[k]: the size the most recent successful set_size asked for on k
    modeSet,     \* modeSet[o]: the mode the most recent successful set_mode asked for on o
    last         \* the operation that made a native call most recently, with its result

vars == <<inners, strong, refs, pc, panicked, aborted, closes, dropper,
          handles, bufs, active, modeReg, sems, shown, sizeSet, modeSet, last>>

wrapperVars == <<inners, strong, refs, pc, panicked, aborted, closes, dropper>>
osVars == <<handles, bufs, active, modeReg, sems>>
histVars == <<shown, sizeSet, modeSet>>

\* ------------------------------------------------------------ helpers
RECURSIVE SumRefs(_, _)
SumRefs(i, T) ==
    IF T = {} THEN 0
    ELSE LET t == CHOOSE x \in T : TRUE IN refs[t][i] + SumRefs(i, T \ {t})
\* Handle values of inners[i] alive in the process.
TotalRefs(i) == SumRefs(i, Threads)

RECURSIVE BitAnd(_, _)
BitAnd(a, b) ==
    IF a = 0 \/ b = 0 THEN 0
    ELSE (IF a % 2 = 1 /\ b % 2 = 1 THEN 1 ELSE 0) + 2 * BitAnd(a \div 2, b \div 2)

RECURSIVE BitOr(_, _)
BitOr(a, b) ==
    IF a = 0 THEN b
    ELSE IF b = 0 THEN a
    ELSE (IF a % 2 = 1 \/ b % 2 = 1 THEN 1 ELSE 0) + 2 * BitOr(a \div 2, b \div 2)

NoOp == [op |-> "none", res |-> "none", inner |-> 0, native |-> "none", arg |-> <<>>, val |-> <<>>]
Done(op, res, i, native, arg, val) ==
    [op |-> op, res |-> res, inner |-> i, native |-> native, arg |-> arg, val |-> val]

\* ------------------------------------------------------ the handle table
ObjOf(raw) == IF raw \in Raws THEN handles[raw] ELSE NoObj
FreeRaws == {r \in Raws : handles[r] = NoObj}
FreshRaw == CHOOSE r \in FreeRaws : \A q \in FreeRaws : r <= q
LiveBufs == {k \in DOMAIN bufs : bufs[k] # NoSize}

\* CloseHandle(raw). accept = FALSE is a close the system refuses although the
\* handle is open (a handle protected from close). It returns nonzero on
\* success. Closing the last handle of an object destroys the object; when
\* that object is the active screen buffer the console chooses another live
\* buffer to display.
CloseHandleRet(raw, accept) == IF accept /\ ObjOf(raw) # NoObj THEN 1 ELSE 0
CloseHandle(raw, accept) ==
    LET o == ObjOf(raw)
        h2 == [handles EXCEPT ![raw] = NoObj]
        gone == \A r \in Raws : h2[r] # o
    IN IF CloseHandleRet(raw, accept) = 0
       THEN UNCHANGED <<handles, bufs, active, modeReg, sems, sizeSet, modeSet>>
       ELSE /\ handles' = h2
            /\ IF gone /\ IsBuf(o)
               THEN /\ bufs' = [bufs EXCEPT ![o[2]] = NoSize]
                    /\ sizeSet' = [sizeSet EXCEPT ![o[2]] = NoSize]
                    /\ IF active = o[2]
                       THEN IF LiveBufs \ {o[2]} = {}
                            THEN active' = -1
                            ELSE active' \in LiveBufs \ {o[2]}
                       ELSE active' = active
               ELSE UNCHANGED <<bufs, sizeSet, active>>
            /\ IF gone /\ IsConsoleObj(o)
               THEN /\ modeReg' = [modeReg EXCEPT ![o] = -1]
                    /\ modeSet' = [modeSet EXCEPT ![o] = -1]
               ELSE UNCHANGED <<modeReg, modeSet>>
            /\ IF gone /\ IsSem(o)
               THEN sems' = [sems EXCEPT ![o[2]] = <<>>]
               ELSE sems' = sems

\* ------------------------------------------------------------- Handle
\* Handle::is_valid_handle, and the variant that accepts every value.
is_valid_handle_always(handle) == TRUE
is_valid_handle(handle) == IF handle = INVALID_HANDLE_VALUE THEN FALSE ELSE TRUE

\* The bool stored in Inner by each constructor: output_handle and
\* input_handle store false, current_out_handle and current_in_handle true.
ExclusiveOf(type) ==
    CASE type = "OutputHandle" -> FALSE
      [] type = "InputHandle" -> FALSE
      [] type = "CurrentOutputHandle" -> TRUE
      [] type = "CurrentInputHandle" -> TRUE

\* Handle::from_raw
from_raw(handle) == [raw |-> handle, exclusive |-> TRUE]

\* What the native acquisition call of each HandleType can return:
\* GetStdHandle gives the stored standard handle, null when the process has
\* none, or INVALID_HANDLE_VALUE; CreateFileW on CONOUT$ / CONIN$ gives a new
\* handle or INVALID_HANDLE_VALUE.
IsStd(type) == type \in {"OutputHandle", "InputHandle"}
AcquireOutcomes(type) == IF IsStd(type) THEN {"ok", "null", "invalid"} ELSE {"ok", "invalid"}
NativeAcquire(type, outcome) ==
    CASE outcome = "invalid" -> INVALID_HANDLE_VALUE
      [] outcome = "null" -> 0
      [] outcome = "ok" /\ type = "OutputHandle" -> 1
      [] outcome = "ok" /\ type = "InputHandle" -> 2
      [] OTHER -> FreshRaw
AcquiredObj(type) == IF type = "CurrentOutputHandle" THEN Buf(active) ELSE InputBuffer

CanRun(t) == ~aborted /\ pc[t] = 0 /\ ~panicked[t]
CanAlloc == Len(inners) < MaxInner
Usable(i) == i \in 1..Len(inners) /\ TotalRefs(i) >= 1
RawOf(i) == inners[i].raw

\* Arc::new(inner), owned by thread t.
ArcNew(t, in) ==
    /\ inners' = Append(inners, in)
    /\ strong' = [strong EXCEPT ![Len(inners) + 1] = 1]
    /\ refs' = [refs EXCEPT ![t][Len(inners) + 1] = 1]
    /\ UNCHANGED <<pc, panicked, aborted, closes, dropper>>

\* Handle::output_handle / input_handle / current_out_handle / current_in_handle,
\* reached through Handle::new's match; op names the public entry point.
Acquire(t, type, outcome, op) ==
    LET handle == NativeAcquire(type, outcome)
        opened == outcome = "ok" /\ ~IsStd(type)
    IN /\ CanRun(t) /\ CanAlloc
       /\ outcome \in AcquireOutcomes(type)
       /\ opened => active # -1 \/ type # "CurrentOutputHandle"
       /\ handles' = IF opened THEN [handles EXCEPT ![handle] = AcquiredObj(type)] ELSE handles
       /\ IF ~is_valid_handle(handle)
          THEN /\ last' = Done(op, "Err", 0, "fail", <<type>>, <<>>)
               /\ UNCHANGED wrapperVars
          ELSE /\ ArcNew(t, [raw |-> handle, exclusive |-> ExclusiveOf(type)])
               /\ last' = Done(op, "Ok", Len(inners) + 1,
                               IF outcome = "invalid" THEN "fail" ELSE "ok", <<type>>, <<handle>>)
       /\ UNCHANGED <<bufs, active, modeReg, sems, shown, sizeSet, modeSet>>

\* Handle::new(handle_type)
Handle_new(t, type, outcome) == Acquire(t, type, outcome, "new")

\* #[derive(Clone)] on Handle: Arc::clone raises the strong count by one.
\* The variant copies the Handle and leaves the count alone.
ArcCloneCount_forgets(n) == n
ArcCloneCount(n) == n + 1
Handle_clone(t, i) ==
    /\ CanRun(t) /\ Usable(i)
    /\ TotalRefs(i) < MaxStrong
    /\ strong' = [strong EXCEPT ![i] = ArcCloneCount(strong[i])]
    /\ refs' = [refs EXCEPT ![t][i] = @ + 1]
    /\ UNCHANGED <<last, inners, pc, panicked, aborted, closes, dropper>>
    /\ UNCHANGED osVars /\ UNCHANGED histVars

\* Dropping a Handle, first half: Arc::drop lowers the strong count in one
\* atomic step; the thread that saw the count 1 goes on to drop the Inner.
\* The variant also does so at a count of 2.
ArcIsLast_early(prev) == prev <= 2
ArcIsLast(prev) == prev = 1
Handle_drop(t, i) ==
    /\ ~aborted /\ pc[t] = 0
    /\ i \in 1..Len(inners) /\ refs[t][i] >= 1
    /\ refs' = [refs EXCEPT ![t][i] = @ - 1]
    /\ strong' = [strong EXCEPT ![i] = IF @ > 0 THEN @ - 1 ELSE 0]
    /\ pc' = [pc EXCEPT ![t] = IF ArcIsLast(strong[i]) THEN i ELSE 0]
    /\ UNCHANGED <<last, inners, panicked, aborted, closes, dropper>>
    /\ UNCHANGED osVars /\ UNCHANGED histVars

\* Dropping a Handle, second half: Inner::drop. An exclusive handle is closed
\* and the close is asserted to have returned nonzero; a failed assertion
\* panics, and a panic in a thread that is already unwinding aborts.
\* The variants close whatever the flag says, and drop the assertion.
InnerCloses_always(in) == TRUE
InnerCloses(in) == in.exclusive
CloseAsserted_ignored(ret) == TRUE
CloseAsserted(ret) == ret # 0
Inner_drop(t, accept) ==
    LET i == pc[t]
        in == inners[i]
    IN /\ ~aborted /\ i # 0
       /\ pc' = [pc EXCEPT ![t] = 0]
       /\ dropper' = [dropper EXCEPT ![i] = Append(@, t)]
       /\ IF InnerCloses(in)
          THEN /\ CloseHandle(in.raw, accept)
               /\ closes' = [closes EXCEPT ![i] = @ + 1]
               /\ IF CloseAsserted(CloseHandleRet(in.raw, accept))
                  THEN /\ UNCHANGED <<panicked, aborted>>
                       /\ last' = Done("drop", "Ok", i,
                                       IF CloseHandleRet(in.raw, accept) # 0 THEN "ok" ELSE "fail",
                                       <<>>, <<>>)
                  ELSE /\ panicked' = [panicked EXCEPT ![t] = TRUE]
                       /\ aborted' = panicked[t]
                       /\ last' = Done("drop", "Panic", i, "fail", <<>>, <<>>)
          ELSE /\ accept
               /\ UNCHANGED <<panicked, aborted, closes>>
               /\ UNCHANGED <<handles, bufs, active, modeReg, sems, sizeSet, modeSet, last>>
       /\ UNCHANGED <<inners, strong, refs, shown>>

\* --------------------------------------------------------- ScreenBuffer
ConsoleObjs == {InputBuffer} \cup {Buf(k) : k \in 0..MaxInner}
\* The mode a console object starts with: processed, wrapping output on a
\* screen buffer, the usual line input flags on the input buffer.
InitialMode(o) == IF IsBuf(o) THEN 3 ELSE 487

\* ScreenBuffer::current(): Handle::new(HandleType::CurrentOutputHandle).
\* The variant asks for the standard output handle.
ScreenBuffer_current_type_std == "OutputHandle"
ScreenBuffer_current_type == "CurrentOutputHandle"
ScreenBuffer_current(t, outcome) == Acquire(t, ScreenBuffer_current_type, outcome, "current")

\* ScreenBuffer::create(): CreateConsoleScreenBuffer, then Handle::from_raw.
\* The new buffer takes the id of the Inner that owns its handle, and is not
\* displayed. The variant displays it.
ActiveAfterCreate_shows(k) == k
ActiveAfterCreate(k) == active
ScreenBuffer_create(t, accept) ==
    LET k == Len(inners) + 1
        new_screen_buffer == FreshRaw
    IN /\ CanRun(t) /\ CanAlloc
       /\ IF accept
          THEN /\ handles' = [handles EXCEPT ![new_screen_buffer] = Buf(k)]
               /\ bufs' = [bufs EXCEPT ![k] = WindowSize]
               /\ modeReg' = [modeReg EXCEPT ![Buf(k)] = InitialMode(Buf(k))]
               /\ active' = ActiveAfterCreate(k)
               /\ ArcNew(t, from_raw(new_screen_buffer))
               /\ last' = Done("create", "Ok", k, "ok", <<>>, <<new_screen_buffer>>)
          ELSE /\ UNCHANGED <<handles, bufs, modeReg, active>>
               /\ UNCHANGED wrapperVars
               /\ last' = Done("create", "Err", 0, "fail", <<>>, <<>>)
       /\ UNCHANGED <<sems, shown, sizeSet, modeSet>>

\* ScreenBuffer::show(): SetConsoleActiveScreenBuffer(*self.handle). The call
\* fails on a handle that is no screen buffer, or when the console refuses.
\* The variant leaves the displayed buffer as it is.
ShowTarget_keeps(k) == active
ShowTarget(k) == k
ScreenBuffer_show(t, i, accept) ==
    LET o == ObjOf(RawOf(i))
        ok == accept /\ IsBuf(o)
    IN /\ CanRun(t) /\ Usable(i)
       /\ IF ok
          THEN /\ active' = ShowTarget(o[2])
               /\ shown' = o[2]
               /\ last' = Done("show", "Ok", i, "ok", <<>>, <<>>)
          ELSE /\ UNCHANGED <<active, shown>>
               /\ last' = Done("show", "Err", i, "fail", <<>>, <<>>)
       /\ UNCHANGED wrapperVars
       /\ UNCHANGED <<handles, bufs, modeReg, sems, sizeSet, modeSet>>

\* ScreenBuffer::info(): GetConsoleScreenBufferInfo(*self.handle, &mut csbi).
\* The result carries the size of the buffer the handle refers to.
InfoResult(raw) ==
    LET o == ObjOf(raw)
    IN IF IsBuf(o) THEN <<"Ok", bufs[o[2]]>> ELSE <<"Err", NoSize>>
ScreenBuffer_info(t, i) ==
    LET r == InfoResult(RawOf(i))
    IN /\ CanRun(t) /\ Usable(i)
       /\ last' = Done("info", r[1], i, IF r[1] = "Ok" THEN "ok" ELSE "fail", <<>>, r[2])
       /\ UNCHANGED wrapperVars /\ UNCHANGED osVars /\ UNCHANGED histVars

\* ScreenBuffer::font_info(): GetCurrentConsoleFont(*self.handle, false, ..).
\* The console has one font, index 0 of size 8x16.
ConsoleFont == <<0, 8, 16>>
ScreenBuffer_font_info(t, i) ==
    LET ok == IsBuf(ObjOf(RawOf(i)))
    IN /\ CanRun(t) /\ Usable(i)
       /\ last' = IF ok THEN Done("font_info", "Ok", i, "ok", <<>>, ConsoleFont)
                  ELSE Done("font_info", "Err", i, "fail", <<>>, <<>>)
       /\ UNCHANGED wrapperVars /\ UNCHANGED osVars /\ UNCHANGED histVars

\* ScreenBuffer::set_size(x, y): SetConsoleScreenBufferSize(*self.handle,
\* COORD { X: x, Y: y }). The console refuses a size smaller than the window.
Coord(x, y) == <<x, y>>
SizeAccepted(c) == c[1] >= WindowSize[1] /\ c[2] >= WindowSize[2]
ScreenBuffer_set_size(t, i, x, y) ==
    LET o == ObjOf(RawOf(i))
        c == Coord(x, y)
        ok == IsBuf(o) /\ SizeAccepted(c)
    IN /\ CanRun(t) /\ Usable(i)
       /\ IF ok
          THEN /\ bufs' = [bufs EXCEPT ![o[2]] = c]
               /\ sizeSet' = [sizeSet EXCEPT ![o[2]] = <<x, y>>]
               /\ last' = Done("set_size", "Ok", i, "ok", <<x, y>>, <<>>)
          ELSE /\ UNCHANGED <<bufs, sizeSet>>
               /\ last' = Done("set_size", "Err", i, "fail", <<x, y>>, <<>>)
       /\ UNCHANGED wrapperVars
       /\ UNCHANGED <<handles, active, modeReg, sems, shown, modeSet>>

\* ---------------------------------------------------------- ConsoleMode
\* ConsoleMode::new(): Handle::new(HandleType::OutputHandle)
ConsoleMode_new(t, outcome) == Acquire(t, "OutputHandle", outcome, "mode_new")

\* CONSOLE_MODE(console_mode): a tuple struct around the u32 argument, which
\* it holds whole. The variant keeps the low 16 bits.
CONSOLE_MODE_low16(console_mode) == console_mode % 65536
CONSOLE_MODE(console_mode) == console_mode

\* ConsoleMode::set_mode(console_mode): SetConsoleMode(*self.handle, ..).
\* extra = -1: the console refuses the mode; otherwise it stores the bits
\* written, and may report the bits of extra along with them.
ConsoleMode_set_mode(t, i, console_mode, extra) ==
    LET o == ObjOf(RawOf(i))
        ok == IsConsoleObj(o) /\ extra # -1
    IN /\ CanRun(t) /\ Usable(i)
       /\ IF ok
          THEN /\ modeReg' = [modeReg EXCEPT ![o] = BitOr(CONSOLE_MODE(console_mode), extra)]
               /\ modeSet' = [modeSet EXCEPT ![o] = console_mode]
               /\ last' = Done("set_mode", "Ok", i, "ok", <<console_mode>>, <<>>)
          ELSE /\ UNCHANGED <<modeReg, modeSet>>
               /\ last' = Done("set_mode", "Err", i, "fail", <<console_mode>>, <<>>)
       /\ UNCHANGED wrapperVars
       /\ UNCHANGED <<handles, bufs, active, sems, shown, sizeSet>>

\* ConsoleMode::mode(): GetConsoleMode(*self.handle, &mut console_mode),
\* then Ok(console_mode.0).
ModeResult(raw) ==
    LET o == ObjOf(raw)
    IN IF IsConsoleObj(o) THEN <<"Ok", <<modeReg[o]>>>> ELSE <<"Err", <<>>>>
ConsoleMode_mode(t, i) ==
    LET r == ModeResult(RawOf(i))
    IN /\ CanRun(t) /\ Usable(i)
       /\ last' = Done("mode", r[1], i, IF r[1] = "Ok" THEN "ok" ELSE "fail", <<>>, r[2])
       /\ UNCHANGED wrapperVars /\ UNCHANGED osVars /\ UNCHANGED histVars

\* ------------------------------------------------------------ Semaphore
\* Semaphore::new(): CreateSemaphoreW(None, 0, 1, ""), then Handle::from_raw.
\* The variant passes a maximum count of 2.
SemaphoreMax_two == SemMaximumCount + 1
SemaphoreMax == SemMaximumCount
Semaphore_new(t, accept) ==
    LET k == Len(inners) + 1
        handle == FreshRaw
        ok == accept /\ SemaphoreMax > 0 /\ SemInitialCount >= 0 /\ SemInitialCount <= SemaphoreMax
    IN /\ CanRun(t) /\ CanAlloc
       /\ IF ok
          THEN /\ handles' = [handles EXCEPT ![handle] = Sem(k)]
               /\ sems' = [sems EXCEPT ![k] = <<SemInitialCount, SemaphoreMax>>]
               /\ ArcNew(t, from_raw(handle))
               /\ last' = Done("sem_new", "Ok", k, "ok", <<>>, <<handle>>)
          ELSE /\ UNCHANGED <<handles, sems>>
               /\ UNCHANGED wrapperVars
               /\ last' = Done("sem_new", "Err", 0, "fail", <<>>, <<>>)
       /\ UNCHANGED <<bufs, active, modeReg, shown, sizeSet, modeSet>>

\* Semaphore::release(): ReleaseSemaphore(*self.0, 1, None). The call fails
\* when the count would pass the maximum, and changes nothing then.
Semaphore_release(t, i) ==
    LET o == ObjOf(RawOf(i))
        ok == IsSem(o) /\ sems[o[2]][1] + SemReleaseCount <= sems[o[2]][2]
    IN /\ CanRun(t) /\ Usable(i)
       /\ IF ok
          THEN /\ sems' = [sems EXCEPT ![o[2]] = <<@[1] + SemReleaseCount, @[2]>>]
               /\ last' = Done("release", "Ok", i, "ok", <<>>, <<>>)
          ELSE /\ UNCHANGED sems
               /\ last' = Done("release", "Err", i, "fail", <<>>, <<>>)
       /\ UNCHANGED wrapperVars
       /\ UNCHANGED <<handles, bufs, active, modeReg>> /\ UNCHANGED histVars

\* A caller waiting on Semaphore::handle() with the system's wait call: the
\* wait returns when the count is positive and takes one unit.
Semaphore_wait(t, i) ==
    LET o == ObjOf(RawOf(i))
    IN /\ CanRun(t) /\ Usable(i)
       /\ IsSem(o) /\ sems[o[2]][1] > 0
       /\ sems' = [sems EXCEPT ![o[2]] = <<@[1] - 1, @[2]>>]
       /\ last' = Done("wait", "Ok", i, "ok", <<>>, <<>>)
       /\ UNCHANGED wrapperVars
       /\ UNCHANGED <<handles, bufs, active, modeReg>> /\ UNCHANGED histVars

\* ------------------------------------------------------- specification
\* The process starts attached to a console: standard output is a handle of
\* screen buffer 0, which is active, standard input a handle of the input buffer.
Init ==
    /\ inners = <<>>
    /\ strong = [i \in InnerIds |-> 0]
    /\ refs = [t \in Threads |-> [i \in InnerIds |-> 0]]
    /\ pc = [t \in Threads |-> 0]
    /\ panicked = [t \in Threads |-> FALSE]
    /\ aborted = FALSE
    /\ closes = [i \in InnerIds |-> 0]
    /\ dropper = [i \in InnerIds |-> <<>>]
    /\ handles = [r \in Raws |-> IF r = 1 THEN Buf(0) ELSE IF r = 2 THEN InputBuffer ELSE NoObj]
    /\ bufs = [k \in 0..MaxInner |-> IF k = 0 THEN WindowSize ELSE NoSize]
    /\ active = 0
    /\ modeReg = [o \in ConsoleObjs |->
                    IF o \in {Buf(0), InputBuffer} THEN InitialMode(o) ELSE -1]
    /\ sems = [k \in InnerIds |-> <<>>]
    /\ shown = -1
    /\ sizeSet = [k \in 0..MaxInner |-> NoSize]
    /\ modeSet = [o \in ConsoleObjs |-> -1]
    /\ last = NoOp

\* Handle ownership across threads: the main thread builds the handles, with
\* every constructor; both threads clone and drop them.
Next ==
    \/ \E t \in Main, type \in HandleType, outcome \in {"ok", "invalid"} :
           Handle_new(t, type, outcome)
    \/ \E t \in Main, accept \in BOOLEAN : Semaphore_new(t, accept)
    \/ \E t \in Threads, i \in InnerIds : Handle_clone(t, i)
    \/ \E t \in Threads, i \in InnerIds : Handle_drop(t, i)
    \/ \E t \in Threads, accept \in BOOLEAN : Inner_drop(t, accept)

Spec == Init /\ [][Next]_vars

\* Acquisition on the main thread, with every value the native call can return.
NextAcquire ==
    \/ \E t \in Main, type \in HandleType, outcome \in {"ok", "null", "invalid"} :
           Handle_new(t, type, outcome)
    \/ \E t \in Main, outcome \in {"ok", "invalid"} : ScreenBuffer_current(t, outcome)
    \/ \E t \in Main, outcome \in {"ok", "null", "invalid"} : ConsoleMode_new(t, outcome)
    \/ \E t \in Main, i \in InnerIds : Handle_clone(t, i)
    \/ \E t \in Main, i \in InnerIds : Handle_drop(t, i)
    \/ \E t \in Main, accept \in BOOLEAN : Inner_drop(t, accept)

SpecAcquire == Init /\ [][NextAcquire]_vars

\* Screen buffers on the main thread.
NextScreen ==
    \/ \E t \in Main, outcome \in {"ok", "invalid"} : ScreenBuffer_current(t, outcome)
    \/ \E t \in Main, accept \in BOOLEAN : ScreenBuffer_create(t, accept)
    \/ \E t \in Main, i \in InnerIds, accept \in BOOLEAN : ScreenBuffer_show(t, i, accept)
    \/ \E t \in Main, i \in InnerIds : ScreenBuffer_info(t, i)
    \/ \E t \in Main, i \in InnerIds : ScreenBuffer_font_info(t, i)
    \/ \E t \in Main, i \in InnerIds, c \in SizeInputs : ScreenBuffer_set_size(t, i, c[1], c[2])
    \/ \E t \in Main, i \in InnerIds : Handle_clone(t, i)
    \/ \E t \in Main, i \in InnerIds : Handle_drop(t, i)
    \/ \E t \in Main, accept \in BOOLEAN : Inner_drop(t, accept)

SpecScreen == Init /\ [][NextScreen]_vars

\* Screen buffers and console modes on the main thread.
NextFrame ==
    \/ \E t \in Main, outcome \in {"ok", "invalid"} : ScreenBuffer_current(t, outcome)
    \/ \E t \in Main, accept \in BOOLEAN : ScreenBuffer_create(t, accept)
    \/ \E t \in Main, i \in InnerIds, accept \in BOOLEAN : ScreenBuffer_show(t, i, accept)
    \/ \E t \in Main, i \in InnerIds : ScreenBuffer_info(t, i)
    \/ \E t \in Main, i \in InnerIds : ScreenBuffer_font_info(t, i)
    \/ \E t \in Main, i \in InnerIds, c \in SizeInputs : ScreenBuffer_set_size(t, i, c[1], c[2])
    \/ \E t \in Main, i \in InnerIds, extra \in {0, -1} : ConsoleMode_set_mode(t, i, 4, extra)
    \/ \E t \in Main, i \in InnerIds : ConsoleMode_mode(t, i)
    \/ \E t \in Main, i \in InnerIds : Handle_clone(t, i)
    \/ \E t \in Main, i \in InnerIds : Handle_drop(t, i)
    \/ \E t \in Main, accept \in BOOLEAN : Inner_drop(t, accept)

SpecFrame == Init /\ [][NextFrame]_vars

\* Console modes on the main thread, through handles of standard output and input.
NextMode ==
    \/ \E t \in Main, outcome \in {"ok", "null", "invalid"} : ConsoleMode_new(t, outcome)
    \/ \E t \in Main : Handle_new(t, "InputHandle", "ok")
    \/ \E t \in Main, i \in InnerIds, m \in ModeInputs, extra \in ModeExtra \cup {-1} :
           ConsoleMode_set_mode(t, i, m, extra)
    \/ \E t \in Main, i \in InnerIds : ConsoleMode_mode(t, i)
    \/ \E t \in Main, i \in InnerIds : Handle_drop(t, i)
    \/ \E t \in Main, accept \in BOOLEAN : Inner_drop(t, accept)

SpecMode == Init /\ [][NextMode]_vars

\* Semaphores, released and waited on by both threads.
NextSem ==
    \/ \E t \in Threads, accept \in BOOLEAN : Semaphore_new(t, accept)
    \/ \E t \in Threads, i \in InnerIds : Semaphore_release(t, i)
    \/ \E t \in Threads, i \in InnerIds : Semaphore_wait(t, i)
    \/ \E t \in Threads, i \in InnerIds : Handle_clone(t, i)
    \/ \E t \in Threads, i \in InnerIds : Handle_drop(t, i)
    \/ \E t \in Threads, accept \in BOOLEAN : Inner_drop(t, accept)

SpecSem == Init /\ [][NextSem]_vars

\* Every operation that makes a native call, on the main thread.
NextAll ==
    \/ \E t \in Main, type \in HandleType, outcome \in {"ok", "invalid"} :
           Handle_new(t, type, outcome)
    \/ \E t \in Main, outcome \in {"ok", "invalid"} : ScreenBuffer_current(t, outcome)
    \/ \E t \in Main, accept \in BOOLEAN : ScreenBuffer_create(t, accept)
    \/ \E t \in Main, i \in InnerIds, accept \in BOOLEAN : ScreenBuffer_show(t, i, accept)
    \/ \E t \in Main, i \in InnerIds : ScreenBuffer_info(t, i)
    \/ \E t \in Main, i \in InnerIds : ScreenBuffer_font_info(t, i)
    \/ \E t \in Main, i \in InnerIds, c \in SizeInputs : ScreenBuffer_set_size(t, i, c[1], c[2])
    \/ \E t \in Main, outcome \in {"ok", "invalid"} : ConsoleMode_new(t, outcome)
    \/ \E t \in Main, i \in InnerIds, extra \in {0, -1} : ConsoleMode_set_mode(t, i, 4, extra)
    \/ \E t \in Main, i \in InnerIds : ConsoleMode_mode(t, i)
    \/ \E t \in Main, accept \in BOOLEAN : Semaphore_new(t, accept)
    \/ \E t \in Main, i \in InnerIds : Semaphore_release(t, i)
    \/ \E t \in Main, i \in InnerIds : Semaphore_wait(t, i)
    \/ \E t \in Main, i \in InnerIds : Handle_drop(t, i)
    \/ \E t \in Main, accept \in BOOLEAN : Inner_drop(t, accept)

SpecAll == Init /\ [][NextAll]_vars

\* ---------------------------------------------------------------- claims
Allocated == 1..Len(inners)
InDrop(i) == {t \in Threads : pc[t] = i}

\* C1: an exclusively-owned handle (from_raw, current_out_handle,
\* current_in_handle) has had no CloseHandle call while any Handle value of it
\* is alive or its last drop is still running, and exactly one once the
\* original and every clone have been dropped.
C1_ExclusiveClosedExactlyOnce ==
    \A i \in Allocated :
        inners[i].exclusive =>
            /\ TotalRefs(i) >= 1 => closes[i] = 0
            /\ InDrop(i) # {} => closes[i] = 0
            /\ (TotalRefs(i) = 0 /\ InDrop(i) = {}) => closes[i] = 1

\* An exclusive handle built on the main thread, cloned for thread 2, whose
\* last reference thread 2 dropped: closed once.
C1_Witness ==
    \E i \in Allocated :
        /\ inners[i].exclusive
        /\ dropper[i] = <<2>>
        /\ TotalRefs(i) = 0
        /\ closes[i] = 1

\* C2: a shared handle (output_handle, input_handle) never has CloseHandle
\* called for it, whatever is cloned and dropped and also after its last
\* reference is gone, and the standard handles stay open in the handle table.
C2_SharedNeverClosed ==
    /\ \A i \in Allocated : ~inners[i].exclusive => closes[i] = 0
    /\ handles[1] = Buf(0)
    /\ handles[2] = InputBuffer

\* A shared handle cloned for thread 2 and dropped by both threads, thread 2 last.
C2_Witness ==
    \E i \in Allocated :
        /\ ~inners[i].exclusive
        /\ dropper[i] = <<2>>
        /\ TotalRefs(i) = 0
        /\ closes[i] = 0

\* C3: under every interleaving of the threads, at most one thread ever runs
\* Inner::drop of an exclusive handle, that thread is the one whose drop left
\* no Handle value alive, and no close is issued while another is alive.
C3_OneCloserAfterLastDrop ==
    \A i \in Allocated :
        inners[i].exclusive =>
            /\ Cardinality(InDrop(i)) + Len(dropper[i]) <= 1
            /\ InDrop(i) # {} => TotalRefs(i) = 0
            /\ dropper[i] # <<>> => TotalRefs(i) = 0 /\ closes[i] = Len(dropper[i])

\* Both threads are inside Inner::drop at once, thread 2 for an exclusive
\* handle it received as a clone.
C3_Witness ==
    \E i \in Allocated :
        /\ inners[i].exclusive
        /\ pc[2] = i
        /\ pc[1] \notin {0, i}

\* C4: Handle::new, for each HandleType and each value the native call
\* returns, ends in Ok or in Err, and a handle it returned as Ok never holds
\* INVALID_HANDLE_VALUE; no Inner ever wraps that value.
C4_NewNeverWrapsInvalid ==
    /\ \A i \in Allocated : inners[i].raw # INVALID_HANDLE_VALUE
    /\ last.op = "new" =>
        /\ last.res \in {"Ok", "Err"}
        /\ last.res = "Ok" =>
            /\ last.val # <<INVALID_HANDLE_VALUE>>
            /\ last.inner \in Allocated
            /\ inners[last.inner].raw = last.val[1]

\* Handle::new(CurrentInputHandle) whose CreateFileW returned the sentinel: Err.
C4_Witness ==
    /\ last.op = "new"
    /\ last.arg = <<"CurrentInputHandle">>
    /\ last.native = "fail"
    /\ last.res = "Err"

\* C5: the count of a semaphore made by Semaphore::new stays within 0..1,
\* and release() returns Ok exactly when the count is below 1 (so the first
\* release succeeds and a second one with no wait in between fails); a
\* successful release adds one, a failed one changes nothing.
SemCountBound == \A k \in InnerIds : sems[k] # <<>> => sems[k][1] \in 0..1
ReleaseRule ==
    \A i \in Allocated :
        (last'.op = "release" /\ last'.inner = i /\ (last' # last \/ sems' # sems)) =>
            LET o == ObjOf(RawOf(i))
            IN /\ IsSem(o)
               /\ (last'.res = "Ok") <=> (sems[o[2]][1] < 1)
               /\ last'.res = "Ok" => sems'[o[2]][1] = sems[o[2]][1] + 1
               /\ last'.res = "Err" => sems' = sems
C5_ReleaseUpToMaximum == []SemCountBound /\ [][ReleaseRule]_vars

\* A release refused on a semaphore whose count is 1.
C5_Witness ==
    /\ last.op = "release"
    /\ last.res = "Err"
    /\ last.inner \in Allocated
    /\ IsSem(ObjOf(RawOf(last.inner)))
    /\ sems[ObjOf(RawOf(last.inner))[2]][1] = 1

\* C6: mode() that returns Ok after a successful set_mode(m) on the same
\* console object, with no other successful set in between, returns a value
\* that has every bit of m.
C6_ModeKeepsBitsSet ==
    (last.op = "mode" /\ last.res = "Ok") =>
        LET o == ObjOf(RawOf(last.inner))
        IN modeSet[o] # -1 => BitAnd(last.val[1], modeSet[o]) = modeSet[o]

\* mode() after set_mode(65540), with a bit the console added.
C6_Witness ==
    /\ last.op = "mode"
    /\ last.res = "Ok"
    /\ modeSet[ObjOf(RawOf(last.inner))] = 65540
    /\ last.val[1] # 65540

\* C7: there is always one active screen buffer and it exists; a buffer with
\* an open handle exists; a successful show() on a handle of buffer B makes B
\* active and leaves every buffer, the one active before included, and every
\* handle as it was.
OneActiveBuffer ==
    /\ active \in LiveBufs
    /\ \A r \in Raws : IsBuf(handles[r]) => handles[r][2] \in LiveBufs
ShowOkStep == last'.op = "show" /\ last'.res = "Ok" /\ (last' # last \/ active' # active)
ShowKeepsPrevious ==
    ShowOkStep =>
        /\ handles[RawOf(last'.inner)] = Buf(active')
        /\ bufs'[active] # NoSize
        /\ bufs' = bufs
        /\ handles' = handles
C7_OneActiveShowKeepsPrevious == []OneActiveBuffer /\ [][ShowKeepsPrevious]_vars

\* A created buffer was shown; buffer 0, active before, still exists at its size.
C7_Witness ==
    /\ last.op = "show"
    /\ last.res = "Ok"
    /\ active # 0
    /\ bufs[0] = WindowSize
    /\ handles[1] = Buf(0)

\* C8 as stated: once some show() has succeeded, on buffer B, every
\* ScreenBuffer::current() that returns Ok before another show() refers to B,
\* and its info() reports the size set on B.
CurrentSeesShown ==
    LET raw == RawOf(last.inner)
    IN /\ ObjOf(raw) = Buf(shown)
       /\ sizeSet[shown] # NoSize => InfoResult(raw) = <<"Ok", sizeSet[shown]>>
C8_Original ==
    (last.op = "current" /\ last.res = "Ok" /\ shown # -1) => CurrentSeesShown

\* C8, amended: the same while buffer B still exists, that is until another
\* show() or until the last handle of B is closed.
C8_CurrentSeesShownWhileOpen ==
    (last.op = "current" /\ last.res = "Ok" /\ shown # -1 /\ shown \in LiveBufs)
        => CurrentSeesShown

\* create(), set_size(120, 9000), show(), then current(): the handle refers
\* to the created buffer, whose size is not the size of buffer 0.
C8_Witness ==
    /\ last.op = "current"
    /\ last.res = "Ok"
    /\ shown \in LiveBufs \ {0}
    /\ sizeSet[shown] = <<120, 9000>>
    /\ InfoResult(RawOf(last.inner)) = <<"Ok", <<120, 9000>>>>
    /\ bufs[0] = WindowSize

\* C9: a failed native call is reported: CloseHandle failing in Inner::drop
\* ends in a panic (the thread is unwinding or the process aborted), never in
\* a returned value; any other failed native call ends in Err; a panic comes
\* from a failed close only.
C9_FailuresSurface ==
    /\ last.native = "fail" =>
        IF last.op = "drop"
        THEN last.res = "Panic" /\ (aborted \/ \E t \in Threads : panicked[t])
        ELSE last.res = "Err"
    /\ last.res = "Panic" => last.op = "drop" /\ last.native = "fail"
    /\ (aborted \/ \E t \in Threads : panicked[t]) => \E i \in Allocated : closes[i] >= 1

\* The close of an exclusive handle failed and the dropping thread panicked.
C9_Witness ==
    /\ last.op = "drop"
    /\ last.native = "fail"
    /\ last.res = "Panic"
    /\ panicked[1]

\* C10 as stated: the active buffer changes only in a step that is a
\* successful show() on a handle of the buffer that becomes active.
ShowMakesActive ==
    /\ last'.op = "show"
    /\ last'.res = "Ok"
    /\ last'.inner \in Allocated
    /\ handles[RawOf(last'.inner)] = Buf(active')
ActiveClosed ==
    /\ last'.op = "drop"
    /\ active \in LiveBufs
    /\ bufs'[active] = NoSize
CreateStep == last'.op = "create" /\ last'.res = "Ok" /\ Len(inners') > Len(inners)
ActiveFrame ==
    /\ active' # active => ShowMakesActive \/ ActiveClosed
    /\ CreateStep => active' = active /\ active' # Len(inners')
====
